---- MODULE Spec2Model ----
(***************************************************************************)
(* Smart Email Responder (smart-email-responder/smart_email_responder.py). *)
(*                                                                         *)
(* SmartEmailResponder.run() as a state machine: the position of run() and *)
(* of the operations it calls, the local variables they carry, and the     *)
(* state of the three external services (the Gmail inbox and drafts, the   *)
(* primary calendar, the completion endpoint).  Every external call is     *)
(* recorded in the log `calls` in the order it is issued.  An external     *)
(* call either returns or raises; which of the two is the environment's    *)
(* choice, as are the model's replies and what dateutil makes of a date.   *)
(* Spec is run() on a constructed responder; SpecMain starts at main();     *)
(* SpecAnalysis and SpecTime are the analysis and the meeting time alone,  *)
(* over all their inputs.                                                  *)
(***************************************************************************)
EXTENDS Integers, Sequences, FiniteSets, TLC

VARIABLES
    pc,                 \* position of main() / run() / of the operation it is in
    env,                \* main(): the environment and the command line
    responder,          \* a SmartEmailResponder has been constructed
    printed,            \* main(): the error line it printed ("": none)
    today_wd,           \* datetime.now().weekday(), 0 = Monday
    now_hour,           \* datetime.now().hour
    inbox,              \* Gmail: the unread messages of the inbox
    emails,             \* run(): the list get_unread_emails returned
    cur,                \* run(): index of the email of the for loop (1-based)
    replies,            \* what the completion call returned for each of them
    analysis,           \* run(): the analysis of each email analysed so far
    calendar,           \* Calendar: the events of the primary calendar
    drafts,             \* Gmail: the drafts created
    calls,              \* every external call issued, in order
    faults,             \* number of external calls that raised
    start_dt,           \* create_meeting_if_available: start_dt
    avail,              \* create_meeting_if_available: (available, alternatives)
    meeting,            \* create_draft_response: (meeting_created, meeting_info)
    attempts,           \* every finished call of create_meeting_if_available
    events_before,      \* number of calendar events when that call began
    draft_id,           \* run(): draft_id of the current email
    responses_created,  \* run(): counter
    meetings_created,   \* run(): counter
    summary,            \* run(): the numbers of the final "Done!" line
    raised              \* an exception left an operation of the class

vars == <<pc, env, responder, printed, today_wd, now_hour, inbox, emails, cur, replies, analysis, calendar, drafts,
          calls, faults, start_dt, avail, meeting, attempts, events_before,
          draft_id,
          responses_created, meetings_created, summary, raised>>

-----------------------------------------------------------------------------
(* Bounds of the model.                                                    *)

MaxEmails == 2          \* unread messages in the inbox
MaxFaults == 1          \* external calls that raise in one run

(* Optional values: None is <<>>, a value x is <<x>>.                       *)
None == <<>>
Some(x) == <<x>>

Min(a, b) == IF a <= b THEN a ELSE b

-----------------------------------------------------------------------------
(* Dates and times.  A datetime is [yr, day, hour, minute]: yr counts years *)
(* from the current one, day counts days from today.                       *)

DaysPerYear == 365

DT(yr, day, hour, minute) == [yr |-> yr, day |-> day, hour |-> hour, minute |-> minute]

ToMin(dt) == (((dt.yr * DaysPerYear + dt.day) * 24) + dt.hour) * 60 + dt.minute

Weekday(dt) == (today_wd + dt.yr * DaysPerYear + dt.day) % 7

Now == DT(0, 0, now_hour, 0)

working_hours == [start |-> 9, end |-> 17, days |-> {0, 1, 2, 3, 4}]

RECURSIVE NextBusinessDayFrom(_)
NextBusinessDayFrom(days_ahead) ==
    IF Weekday(DT(0, days_ahead, now_hour, 0)) \in working_hours.days
    THEN DT(0, days_ahead, now_hour, 0)
    ELSE NextBusinessDayFrom(days_ahead + 1)

_get_next_business_day == NextBusinessDayFrom(1)

(* .replace(hour=h, minute=m, second=0, microsecond=0)                     *)
ReplaceTime(dt, h, m) == [dt EXCEPT !.hour = h, !.minute = m]

DefaultStart == ReplaceTime(_get_next_business_day, 14, 0)

-----------------------------------------------------------------------------
(* The calendar service.  An event occupies [lo, hi), in minutes.          *)

Event(lo, hi) == [lo |-> lo, hi |-> hi]

(* events().list(timeMin, timeMax): the events that overlap the window.    *)
EventsList(cal, timeMin, timeMax) ==
    SelectSeq(cal, LAMBDA e : e.hi > timeMin /\ e.lo < timeMax)

-----------------------------------------------------------------------------
(* Text.  A Python str is the sequence of its characters.                  *)

UpperCase == <<"A","B","C","D","E","F","G","H","I","J","K","L","M",
               "N","O","P","Q","R","S","T","U","V","W","X","Y","Z">>
LowerCase == <<"a","b","c","d","e","f","g","h","i","j","k","l","m",
               "n","o","p","q","r","s","t","u","v","w","x","y","z">>
Digits == <<"0","1","2","3","4","5","6","7","8","9">>

Str_tomorrow == <<"t","o","m","o","r","r","o","w">>
Str_pm == <<"p","m">>
Str_am == <<"a","m">>

LowerChar(c) ==
    IF \E i \in 1..26 : UpperCase[i] = c
    THEN LowerCase[CHOOSE i \in 1..26 : UpperCase[i] = c]
    ELSE c

(* str.lower()                                                             *)
Lower(s) == [i \in 1..Len(s) |-> LowerChar(s[i])]

(* sub in s                                                                *)
Contains(s, sub) ==
    \E i \in 1..(Len(s) - Len(sub) + 1) : SubSeq(s, i, i + Len(sub) - 1) = sub

(* s.replace(sub, ""), sub not empty                                       *)
RECURSIVE Remove(_, _)
Remove(s, sub) ==
    IF Len(s) < Len(sub) THEN s
    ELSE IF SubSeq(s, 1, Len(sub)) = sub
         THEN Remove(SubSeq(s, Len(sub) + 1, Len(s)), sub)
         ELSE <<s[1]>> \o Remove(Tail(s), sub)

(* s.split(c): the pieces of s between the occurrences of the character c  *)
RECURSIVE Split(_, _)
Split(s, c) ==
    IF \E i \in 1..Len(s) : s[i] = c
    THEN LET i == CHOOSE i \in 1..Len(s) : s[i] = c /\ \A j \in 1..(i - 1) : s[j] # c
         IN  <<SubSeq(s, 1, i - 1)>> \o Split(SubSeq(s, i + 1, Len(s)), c)
    ELSE <<s>>

(* s.strip() for the blank                                                 *)
RECURSIVE Strip(_)
Strip(s) ==
    IF s = <<>> THEN s
    ELSE IF s[1] = " " THEN Strip(Tail(s))
    ELSE IF s[Len(s)] = " " THEN Strip(SubSeq(s, 1, Len(s) - 1))
    ELSE s

IsDigit(c) == \E i \in 1..10 : Digits[i] = c
DigitVal(c) == (CHOOSE i \in 1..10 : Digits[i] = c) - 1

RECURSIVE DigitsVal(_)
DigitsVal(s) ==
    IF s = <<>> THEN 0 ELSE DigitsVal(SubSeq(s, 1, Len(s) - 1)) * 10 + DigitVal(s[Len(s)])

(* int(s): blanks around the number are ignored, a sign may precede the    *)
(* digits, anything else raises ValueError.  [ok, val]                     *)
Int_(s) ==
    LET t == Strip(s)
        signed == t # <<>> /\ t[1] \in {"+", "-"}
        d == IF signed THEN Tail(t) ELSE t
    IN  IF d # <<>> /\ \A i \in 1..Len(d) : IsDigit(d[i])
        THEN [ok |-> TRUE, val |-> IF t[1] = "-" THEN 0 - DigitsVal(d) ELSE DigitsVal(d)]
        ELSE [ok |-> FALSE, val |-> 0]

(* The hour and minute of a "tomorrow" request: the try block that parses  *)
(* preferred_time, then tomorrow.replace(hour, minute), which raises       *)
(* ValueError outside 0..23 and 0..59.  [ok, hour, minute]                 *)
HourMinute(clock, add12) ==
    LET parts == Split(clock, ":")
        h == Int_(parts[1])
        m == IF Contains(clock, <<":">>) THEN Int_(parts[2]) ELSE [ok |-> TRUE, val |-> 0]
    IN  IF h.ok /\ m.ok
        THEN [ok |-> TRUE,
              hour |-> IF add12 /\ h.val # 12 THEN h.val + 12 ELSE h.val,
              minute |-> m.val]
        ELSE [ok |-> FALSE, hour |-> 0, minute |-> 0]

ParseTime(preferred_time) ==
    LET time_str == SelectSeq(Lower(preferred_time), LAMBDA c : c # " ")
    IN  IF Contains(time_str, Str_pm) THEN HourMinute(Remove(time_str, Str_pm), TRUE)
        ELSE IF Contains(time_str, Str_am) THEN HourMinute(Remove(time_str, Str_am), FALSE)
        ELSE HourMinute(preferred_time, FALSE)

(* a time that cannot be parsed sent to the default start                  *)
TomorrowStartOrDefault(preferred_time) ==
    LET tomorrow == DT(0, 1, now_hour, 0)
        t == ParseTime(preferred_time)
    IN  IF t.ok /\ t.hour \in 0..23 /\ t.minute \in 0..59
        THEN ReplaceTime(tomorrow, t.hour, t.minute)
        ELSE DefaultStart

TomorrowStart(preferred_time) ==
    LET tomorrow == DT(0, 1, now_hour, 0)
        t == ParseTime(preferred_time)
    IN  IF t.ok /\ t.hour \in 0..23 /\ t.minute \in 0..59
        THEN ReplaceTime(tomorrow, t.hour, t.minute)
        ELSE ReplaceTime(tomorrow, 19, 0)

-----------------------------------------------------------------------------
(* analyze_email_with_reasoning.                                           *)
(*                                                                         *)
(* The model's reply is a text: a sequence of tokens, of which "J" is one  *)
(* complete JSON value, "fence_json" and "fence" are the two code fences and     *)
(* "prose" is any other text.  The JSON value itself is `value`: an object (with the keys *)
(* it has) or not an object.                                               *)

RequiredKeys == {"needs_response", "response_priority", "email_type", "reasoning",
                 "suggested_response"}

AnalysisFields == RequiredKeys \cup {"meeting_request"}

(* The text the JSON is read from: the fenced part of a fenced reply.      *)
ExtractJson(text) ==
    LET response_text == text
        IsFence(t) == t \in {"fence_json", "fence"}
        UpTo(seq) ==
            IF \E i \in 1..Len(seq) : IsFence(seq[i])
            THEN SubSeq(seq, 1, (CHOOSE i \in 1..Len(seq) :
                                    IsFence(seq[i]) /\ \A j \in 1..(i - 1) : ~IsFence(seq[j])) - 1)
            ELSE seq
    IN  IF response_text # <<>> /\ IsFence(response_text[1])
        THEN UpTo(Tail(response_text))
        ELSE response_text

(* json.loads: exactly one JSON value, or JSONDecodeError.                 *)
JsonLoads(text) == text = <<"J">>

(* Python truth of a JSON value, given by its kind.                        *)
Truthy(v) == v \in {"true", "nonempty"}

(* MeetingRequest(...) from the reply's meeting_request object: absent     *)
(* keys take the defaults of .get.                                         *)
MeetingRequest(meeting_data) ==
    [purpose |-> meeting_data.purpose,
     preferred_date |-> meeting_data.preferred_date,
     preferred_time |-> meeting_data.preferred_time,
     duration_minutes |-> IF meeting_data.duration_minutes = None THEN 30
                          ELSE meeting_data.duration_minutes[1],
     attendees |-> IF meeting_data.attendees = "absent" THEN "list"
                   ELSE meeting_data.attendees]

DefaultAnalysis ==
    [needs_response |-> FALSE,
     response_priority |-> "low",
     email_type |-> "unknown",
     reasoning |-> "Error in analysis",
     suggested_response |-> "",
     meeting_request |-> None]

(* the analysis filled with the keys the reply has, the others left out    *)
ParseAnalysisPartial(reply) ==
    LET result == reply.value
        hasMeeting == result.meeting_request = "object"
                      /\ Truthy(result.has_meeting_request)
        field(k) == CASE k = "needs_response" -> result.needs_response
                      [] k = "response_priority" -> result.response_priority
                      [] k = "email_type" -> result.email_type
                      [] k = "reasoning" -> result.reasoning
                      [] k = "suggested_response" -> result.suggested_response
                      [] OTHER -> IF hasMeeting THEN Some(MeetingRequest(result.meeting_data))
                                  ELSE None
    IN  IF /\ reply.content
           /\ JsonLoads(ExtractJson(reply.text))
           /\ result.shape = "object"
           /\ result.meeting_request # "null"
           /\ "needs_response" \in result.keys
        THEN [ok |-> TRUE,
              value |-> [k \in (result.keys \cup {"meeting_request"}) |-> field(k)]]
        ELSE [ok |-> FALSE, value |-> DefaultAnalysis]

(* The try block after the completion call returned `reply`: [ok, value],  *)
(* ok = FALSE when a statement of the block raises.                        *)
ParseAnalysis(reply) ==
    LET result == reply.value
        isObject == result.shape = "object"
        mrRaises == result.meeting_request = "null"
        hasMeeting == result.meeting_request = "object"
                      /\ Truthy(result.has_meeting_request)
    IN  IF /\ reply.content
           /\ JsonLoads(ExtractJson(reply.text))
           /\ isObject
           /\ ~mrRaises
           /\ RequiredKeys \subseteq result.keys
        THEN [ok |-> TRUE,
              value |-> [needs_response |-> result.needs_response,
                         response_priority |-> result.response_priority,
                         email_type |-> result.email_type,
                         reasoning |-> result.reasoning,
                         suggested_response |-> result.suggested_response,
                         meeting_request |-> IF hasMeeting
                                             THEN Some(MeetingRequest(result.meeting_data))
                                             ELSE None]]
        ELSE [ok |-> FALSE, value |-> DefaultAnalysis]

(* the except clause returning an analysis that asks for a response        *)
AnalyzeRespondOnError(callOk, reply) ==
    IF callOk /\ ParseAnalysis(reply).ok THEN ParseAnalysis(reply).value
    ELSE [DefaultAnalysis EXCEPT !.needs_response = TRUE]

(* the whole operation: the except clause returns the default analysis     *)
(* when the call or the parsing raised                                     *)
analyze_email_with_reasoning(callOk, reply) ==
    IF callOk /\ ParseAnalysis(reply).ok THEN ParseAnalysis(reply).value
    ELSE DefaultAnalysis

-----------------------------------------------------------------------------
(* External calls and the handlers around them.                            *)

(* the handlers with the draft creation outside its try block              *)
HandlerDraftOutside(kind) ==
    CASE kind \in {"gmail_list", "gmail_get"} ->
            [catches |-> TRUE, diag |-> "Error getting emails"]
      [] kind = "openai_analysis" ->
            [catches |-> TRUE, diag |-> "Error analyzing email"]
      [] kind = "calendar_list" ->
            [catches |-> TRUE, diag |-> "Error checking availability"]
      [] kind = "calendar_list_alt" ->
            [catches |-> TRUE, diag |-> ""]
      [] kind = "openai_subject" ->
            [catches |-> TRUE, diag |-> "Error generating AI subject"]
      [] kind = "openai_body_subject" ->
            [catches |-> TRUE, diag |-> "Error extracting context from body"]
      [] kind = "calendar_insert" ->
            [catches |-> TRUE, diag |-> "Error in meeting creation"]
      [] kind = "gmail_draft_create" ->
            [catches |-> FALSE, diag |-> "Error creating draft"]

(* the handlers with the event insert outside its try block               *)
HandlerInsertOutside(kind) ==
    CASE kind \in {"gmail_list", "gmail_get"} ->
            [catches |-> TRUE, diag |-> "Error getting emails"]
      [] kind = "openai_analysis" ->
            [catches |-> TRUE, diag |-> "Error analyzing email"]
      [] kind = "calendar_list" ->
            [catches |-> TRUE, diag |-> "Error checking availability"]
      [] kind = "calendar_list_alt" ->
            [catches |-> TRUE, diag |-> ""]
      [] kind = "openai_subject" ->
            [catches |-> TRUE, diag |-> "Error generating AI subject"]
      [] kind = "openai_body_subject" ->
            [catches |-> TRUE, diag |-> "Error extracting context from body"]
      [] kind = "calendar_insert" ->
            [catches |-> FALSE, diag |-> "Error in meeting creation"]
      [] kind = "gmail_draft_create" ->
            [catches |-> TRUE, diag |-> "Error creating draft"]

(* The innermost try block around each external call: whether its except   *)
(* clause catches the exception of the call, and the diagnostic it prints  *)
(* ("" when it prints nothing).                                            *)
Handler(kind) ==
    CASE kind \in {"gmail_list", "gmail_get"} ->
            [catches |-> TRUE, diag |-> "Error getting emails"]
      [] kind = "openai_analysis" ->
            [catches |-> TRUE, diag |-> "Error analyzing email"]
      [] kind = "calendar_list" ->
            [catches |-> TRUE, diag |-> "Error checking availability"]
      [] kind = "calendar_list_alt" ->
            [catches |-> TRUE, diag |-> ""]
      [] kind = "openai_subject" ->
            [catches |-> TRUE, diag |-> "Error generating AI subject"]
      [] kind = "openai_body_subject" ->
            [catches |-> TRUE, diag |-> "Error extracting context from body"]
      [] kind = "calendar_insert" ->
            [catches |-> TRUE, diag |-> "Error in meeting creation"]
      [] kind = "gmail_draft_create" ->
            [catches |-> TRUE, diag |-> "Error creating draft"]

(* One entry of the log: the call of kind `kind` made for email number     *)
(* `email` (0: for no email), whether it returned, the diagnostic printed  *)
(* when it raised, for a calendar call its window or event, in minutes,    *)
(* and for a lookup that returned the number of events it returned.        *)
Call(email, kind, ok, lo, hi, items) ==
    [email |-> email, kind |-> kind, ok |-> ok,
     diag |-> IF ok THEN "" ELSE Handler(kind).diag,
     lo |-> lo, hi |-> hi, items |-> IF ok THEN items ELSE 0]

Failed(log) == Len(SelectSeq(log, LAMBDA c : ~c.ok))

Escaped(log) == \E i \in 1..Len(log) : ~log[i].ok /\ ~Handler(log[i].kind).catches

-----------------------------------------------------------------------------
(* _suggest_alternative_times and _is_time_slot_free.                      *)

AlternativeHours == <<10, 11, 14, 15, 16>>

(* the slots tried without the test of the working day                     *)
CandidatesEveryDay(requested_dt) ==
    [i \in 1..5 |-> DT(requested_dt.yr, requested_dt.day, AlternativeHours[i], 0)]
    \o [days_ahead \in 1..7 |-> DT(requested_dt.yr, requested_dt.day + days_ahead, 14, 0)]

(* The slots tried, in order: the requested day at the five hours, then    *)
(* the next seven days at 14:00, those on working days only (a slot on     *)
(* another day is skipped before any lookup).                              *)
Candidates(requested_dt) ==
    [i \in 1..5 |-> DT(requested_dt.yr, requested_dt.day, AlternativeHours[i], 0)]
    \o SelectSeq([days_ahead \in 1..7 |->
                     DT(requested_dt.yr, requested_dt.day + days_ahead, 14, 0)],
                 LAMBDA next_dt : Weekday(next_dt) \in working_hours.days)

(* _is_time_slot_free: the lookup raised -> False.                         *)
_is_time_slot_free(cal, dt, duration_minutes, lookupOk) ==
    lookupOk /\ Len(EventsList(cal, ToMin(dt), ToMin(dt) + duration_minutes)) = 0

(* the scan without the stop at two alternatives                           *)
RECURSIVE ScanAll(_, _, _, _, _, _, _)
ScanAll(cands, i, cal, duration_minutes, failing, alternatives, lookups) ==
    IF i > Len(cands)
    THEN [alternatives |-> alternatives, lookups |-> lookups]
    ELSE LET alt_dt == cands[i]
             free == i \notin failing
                     /\ Len(EventsList(cal, ToMin(alt_dt), ToMin(alt_dt) + duration_minutes)) = 0
         IN  ScanAll(cands, i + 1, cal, duration_minutes, failing,
                     IF free THEN Append(alternatives, alt_dt) ELSE alternatives,
                     Append(lookups, [ok |-> i \notin failing, lo |-> ToMin(alt_dt),
                                      hi |-> ToMin(alt_dt) + duration_minutes,
                                      items |-> Len(EventsList(cal, ToMin(alt_dt),
                                                    ToMin(alt_dt) + duration_minutes))]))

(* The scan from candidate i on; failing is the set of candidates whose    *)
(* lookup raises.  [alternatives, lookups]                                 *)
RECURSIVE Scan(_, _, _, _, _, _, _)
Scan(cands, i, cal, duration_minutes, failing, alternatives, lookups) ==
    IF i > Len(cands) \/ Len(alternatives) >= 2
    THEN [alternatives |-> SubSeq(alternatives, 1, Min(2, Len(alternatives))),
          lookups |-> lookups]
    ELSE LET alt_dt == cands[i]
             free == _is_time_slot_free(cal, alt_dt, duration_minutes, i \notin failing)
         IN  Scan(cands, i + 1, cal, duration_minutes, failing,
                  IF free THEN Append(alternatives, alt_dt) ELSE alternatives,
                  Append(lookups, [ok |-> i \notin failing, lo |-> ToMin(alt_dt),
                                   hi |-> ToMin(alt_dt) + duration_minutes,
                                   items |-> Len(EventsList(cal, ToMin(alt_dt),
                                                 ToMin(alt_dt) + duration_minutes))]))

_suggest_alternative_times(cal, requested_dt, duration_minutes, failing) ==
    Scan(Candidates(requested_dt), 1, cal, duration_minutes, failing, <<>>, <<>>)

(* the slot taken for available when its lookup raised                     *)
CheckAvailabilityFailOpen(cal, requested_dt, duration_minutes, listOk, failing) ==
    LET events == EventsList(cal, ToMin(requested_dt), ToMin(requested_dt) + duration_minutes)
        alt == Scan(Candidates(requested_dt), 1, cal, duration_minutes, failing, <<>>, <<>>)
    IN  IF ~listOk \/ Len(events) = 0
        THEN [available |-> TRUE, alternatives |-> <<>>, lookups |-> <<>>, items |-> 0]
        ELSE [available |-> FALSE, alternatives |-> alt.alternatives,
              lookups |-> alt.lookups, items |-> Len(events)]

(* check_calendar_availability_dt: [available, alternatives, lookups,      *)
(* items], lookups being the alternative lookups made and items the number *)
(* of events the lookup of the requested window returned.                  *)
check_calendar_availability_dt(cal, requested_dt, duration_minutes, listOk, failing) ==
    LET events == EventsList(cal, ToMin(requested_dt), ToMin(requested_dt) + duration_minutes)
        alt == _suggest_alternative_times(cal, requested_dt, duration_minutes, failing)
    IN  IF ~listOk
        THEN [available |-> FALSE, alternatives |-> <<>>, lookups |-> <<>>, items |-> 0]
        ELSE IF Len(events) = 0
             THEN [available |-> TRUE, alternatives |-> <<>>, lookups |-> <<>>, items |-> 0]
             ELSE [available |-> FALSE, alternatives |-> alt.alternatives,
                   lookups |-> alt.lookups, items |-> Len(events)]

-----------------------------------------------------------------------------
(* _generate_meeting_subject.  A subject line is "specific" (longer than 5 *)
(* characters and without a vague word) or "vague"; a purpose and a body   *)
(* are "long" (over 10, over 20 characters) or "short".  r1 and r2 are the *)
(* outcomes of the two completion calls: "title" (a title longer than 5    *)
(* characters), "short" or "raise".  [subject, calls]                      *)
_generate_meeting_subject(meeting_request, email, r1, r2) ==
    LET step3 ==
            IF email.body = "long"
            THEN [subject |-> IF r2 = "title" THEN "ai_body" ELSE "sender",
                  calls |-> <<[kind |-> "openai_body_subject", ok |-> r2 # "raise"]>>]
            ELSE [subject |-> "sender", calls |-> <<>>]
    IN  IF email.subject = "specific"
        THEN [subject |-> "email_subject", calls |-> <<>>]
        ELSE IF meeting_request.purpose = "long"
             THEN LET c1 == <<[kind |-> "openai_subject", ok |-> r1 # "raise"]>>
                  IN  CASE r1 = "title" -> [subject |-> "ai_purpose", calls |-> c1]
                        [] r1 = "raise" -> [subject |-> "purpose", calls |-> c1]
                        [] OTHER -> [subject |-> step3.subject, calls |-> c1 \o step3.calls]
             ELSE step3

-----------------------------------------------------------------------------
(* The inputs of a run.                                                    *)

max_count == 20

RunWeekdays == {4}
RunHours == {12}

EmailKinds == <<[subject |-> "vague", body |-> "long"],
                [subject |-> "specific", body |-> "short"]>>

(* the inboxes of up to MaxEmails messages whose kinds alternate           *)
RunInboxes == {[i \in 1..n |-> EmailKinds[((i + first) % 2) + 1]] :
                  n \in 0..MaxEmails, first \in 0..1}

Slot(day, h1, h2) == Event((day * 24 + h1) * 60, (day * 24 + h2) * 60)

RunCalendars == {<<>>,
                 <<Slot(1, 14, 15)>>,
                 <<Slot(1, 0, 24)>>}

MeetingData(purpose, date, time, duration, attendees) ==
    [purpose |-> purpose, preferred_date |-> date, preferred_time |-> time,
     duration_minutes |-> duration, attendees |-> attendees]

RunMeetingData ==
    {MeetingData("long", <<"T", "o", "m", "o", "r", "r", "o", "w">>, <<"2", "P", "M">>,
                 Some(60), "list"),
     MeetingData("short", <<>>, <<>>, None, "absent"),
     MeetingData("long", <<"N", "o", "v", " ", "5">>, <<"1", "0", ":", "0", "0">>,
                 Some(30), "null")}

(* What dateutil's parser makes of "<date> <time>": it raises, or returns  *)
(* a datetime: one three days ago, one in three days, one of today at      *)
(* 0:00, one of last year; a 29 February, which has no counterpart next    *)
(* year; one with a time zone, which cannot be compared with now().        *)
Parsed(ok, dt, feb29, aware) == [ok |-> ok, dt |-> dt, feb29 |-> feb29, aware |-> aware]

DateutilOutcomes == {Parsed(FALSE, DT(0, 0, 0, 0), FALSE, FALSE),
                     Parsed(TRUE, DT(0, 0 - 3, 10, 0), FALSE, FALSE),
                     Parsed(TRUE, DT(0, 3, 10, 0), FALSE, FALSE),
                     Parsed(TRUE, DT(0, 0, 0, 0), FALSE, FALSE),
                     Parsed(TRUE, DT(0 - 1, 10, 10, 0), FALSE, FALSE),
                     Parsed(TRUE, DT(0, 0 - 40, 10, 0), TRUE, FALSE),
                     Parsed(TRUE, DT(0, 3, 10, 0), FALSE, TRUE)}

Value(keys, needs_response, suggested_response, meeting_request, flag, data) ==
    [shape |-> "object", keys |-> keys,
     needs_response |-> needs_response, response_priority |-> "high",
     email_type |-> "business", reasoning |-> "asks a question",
     suggested_response |-> suggested_response,
     meeting_request |-> meeting_request, has_meeting_request |-> flag,
     meeting_data |-> data]

NoData == MeetingData("short", <<>>, <<>>, None, "absent")
TomorrowData == MeetingData("long", <<"T", "o", "m", "o", "r", "r", "o", "w">>,
                            <<"2", "P", "M">>, Some(60), "list")

PlainValue == Value(RequiredKeys, TRUE, "text", "absent", "absent", NoData)

(* the replies of a run: one that is no JSON, one that lacks a key, one    *)
(* that wants no response but carries a meeting request, one without a     *)
(* meeting request, and one per meeting request                            *)
RunValues ==
    {Value(RequiredKeys \ {"reasoning"}, TRUE, "text", "object", "true", TomorrowData),
     Value(RequiredKeys, FALSE, "", "object", "true", TomorrowData),
     PlainValue}
    \cup {Value(RequiredKeys, TRUE, "text", "object", "true", d) : d \in RunMeetingData}

Reply(content, text, value) == [content |-> content, text |-> text, value |-> value]

NoReply == Reply(FALSE, <<>>, PlainValue)

RunReplies ==
    {Reply(TRUE, <<"J">>, v) : v \in RunValues} \cup {Reply(TRUE, <<"prose", "J">>, PlainValue)}

(* every reply: any text of up to three tokens around any value            *)
Texts == {<<"J">>, <<"fence_json", "J", "fence">>, <<"fence", "J", "fence">>,
          <<"fence", "J">>, <<"prose", "J">>, <<"J", "prose">>, <<"prose">>, <<>>,
          <<"fence_json", "prose", "fence">>, <<"fence", "fence", "J">>}

AllValues ==
    {[PlainValue EXCEPT !.shape = "array"]}
    \cup {Value(keys, nr, "text", mr, flag, TomorrowData) :
             keys \in SUBSET RequiredKeys, nr \in BOOLEAN,
             mr \in {"absent", "null", "object"},
             flag \in {"true", "false", "nonempty", "null", "absent"}}

AllReplies ==
    {NoReply}
    \cup {Reply(TRUE, t, PlainValue) : t \in Texts}
    \cup {Reply(TRUE, <<"fence_json", "J", "fence">>, v) : v \in AllValues}

-----------------------------------------------------------------------------
(* main(): the environment it checks.  api_key: OPENAI_API_KEY is set (and *)
(* not empty); credentials: credentials.json exists; evaluate: --evaluate  *)
(* was given.                                                              *)

Environments == [api_key : BOOLEAN, credentials : BOOLEAN, evaluate : BOOLEAN]

ReadyEnvironment == [api_key |-> TRUE, credentials |-> TRUE, evaluate |-> FALSE]

-----------------------------------------------------------------------------
(* The state after construction, before run().                             *)

NoStart == DT(0, 0, 0, 0)
NoAvail == [available |-> FALSE, alternatives |-> <<>>]

Init ==
    /\ pc = "start"
    /\ env = ReadyEnvironment
    /\ responder = TRUE
    /\ printed = ""
    /\ today_wd \in RunWeekdays
    /\ now_hour \in RunHours
    /\ inbox \in RunInboxes
    /\ emails = <<>>
    /\ cur = 0
    /\ replies = <<>>
    /\ analysis = <<>>
    /\ calendar \in RunCalendars
    /\ drafts = <<>>
    /\ calls = <<>>
    /\ faults = 0
    /\ start_dt = NoStart
    /\ avail = NoAvail
    /\ meeting = None
    /\ attempts = <<>>
    /\ events_before = 0
    /\ draft_id = None
    /\ responses_created = 0
    /\ meetings_created = 0
    /\ summary = None
    /\ raised = FALSE

(* The log and the fault counter after the calls `new` were made; an       *)
(* exception no handler catches leaves the operation and ends the run.     *)
Log(new) ==
    /\ faults + Failed(new) <= MaxFaults
    /\ calls' = calls \o new
    /\ faults' = faults + Failed(new)
    /\ raised' = (raised \/ Escaped(new))

Goto(new, target) == pc' = IF Escaped(new) THEN "crashed" ELSE target

-----------------------------------------------------------------------------
(* get_unread_emails, and the head of run().                               *)

(* the emails fetched before the failing one kept                        *)
GetUnreadEmailsPartial ==
    /\ pc = "start"
    /\ \E listOk \in BOOLEAN, failAt \in 0..Len(inbox) :
        LET n == Min(Len(inbox), max_count)
            gets == IF failAt = 0 THEN n ELSE failAt
            fetched == [i \in 1..n |->
                           [id |-> i, subject |-> inbox[i].subject, sender |-> "sender",
                            date |-> "date", body |-> inbox[i].body, thread_id |-> i]]
            new == <<Call(0, "gmail_list", listOk, 0, 0, n)>>
                   \o (IF listOk
                       THEN [i \in 1..gets |-> Call(i, "gmail_get", i # failAt, 0, 0, 1)]
                       ELSE <<>>)
        IN  /\ failAt <= n
            /\ ~listOk => failAt = 0
            /\ Log(new)
            /\ emails' = IF listOk
                         THEN SubSeq(fetched, 1, IF failAt = 0 THEN n ELSE failAt - 1)
                         ELSE <<>>
            /\ Goto(new, IF emails' = <<>> THEN "done" ELSE "loop")
    /\ UNCHANGED <<env, responder, printed, today_wd, now_hour, inbox, cur, replies, analysis, calendar, drafts, start_dt,
                   avail, meeting, attempts, events_before, draft_id, responses_created,
                   meetings_created, summary>>

(* listOk: the list call returns; failAt: the position of the message      *)
(* whose get raises (0: none does).                                        *)
GetUnreadEmails ==
    /\ pc = "start"
    /\ \E listOk \in BOOLEAN, failAt \in 0..Len(inbox) :
        LET n == Min(Len(inbox), max_count)
            gets == IF failAt = 0 THEN n ELSE failAt
            fetched == [i \in 1..n |->
                           [id |-> i, subject |-> inbox[i].subject, sender |-> "sender",
                            date |-> "date", body |-> inbox[i].body, thread_id |-> i]]
            new == <<Call(0, "gmail_list", listOk, 0, 0, n)>>
                   \o (IF listOk
                       THEN [i \in 1..gets |-> Call(i, "gmail_get", i # failAt, 0, 0, 1)]
                       ELSE <<>>)
        IN  /\ failAt <= n
            /\ ~listOk => failAt = 0
            /\ Log(new)
            /\ emails' = IF listOk /\ failAt = 0 THEN fetched ELSE <<>>
            /\ Goto(new, IF emails' = <<>> THEN "done" ELSE "loop")
    /\ UNCHANGED <<env, responder, printed, today_wd, now_hour, inbox, cur, replies, analysis, calendar, drafts, start_dt,
                   avail, meeting, attempts, events_before, draft_id, responses_created,
                   meetings_created, summary>>

(* the loop that does not advance                                          *)
NextEmailRepeat ==
    /\ pc = "loop"
    /\ cur < Len(emails)
    /\ cur' = (IF cur = 0 THEN 1 ELSE cur)
    /\ pc' = "analyze"
    /\ UNCHANGED <<env, responder, printed, today_wd, now_hour, inbox, emails, replies, analysis, calendar, drafts, calls,
                   faults, start_dt, avail, meeting, attempts, events_before, draft_id,
                   responses_created, meetings_created, summary, raised>>

(* for email in emails: the next email                                     *)
NextEmail ==
    /\ pc = "loop"
    /\ cur < Len(emails)
    /\ cur' = cur + 1
    /\ pc' = "analyze"
    /\ UNCHANGED <<env, responder, printed, today_wd, now_hour, inbox, emails, replies, analysis, calendar, drafts, calls,
                   faults, start_dt, avail, meeting, attempts, events_before, draft_id,
                   responses_created, meetings_created, summary, raised>>

(* the final print of run()                                                *)
Finish ==
    /\ pc = "loop"
    /\ cur = Len(emails)
    /\ summary' = Some([responses |-> responses_created, meetings |-> meetings_created])
    /\ pc' = "done"
    /\ UNCHANGED <<env, responder, printed, today_wd, now_hour, inbox, emails, cur, replies, analysis, calendar, drafts,
                   calls, faults, start_dt, avail, meeting, attempts, events_before,
                   draft_id, responses_created, meetings_created, raised>>

-----------------------------------------------------------------------------
(* analyze_email_with_reasoning for the current email.                     *)

(* callOk: the completion call returns, with `reply`                      *)
Analyze(Replies) ==
    /\ pc = "analyze"
    /\ \E callOk \in BOOLEAN, reply \in Replies \cup {NoReply} :
        LET new == <<Call(cur, "openai_analysis", callOk, 0, 0, 1)>>
        IN  /\ ~callOk => reply = NoReply
            /\ Log(new)
            /\ replies' = Append(replies, [ok |-> callOk, reply |-> reply])
            /\ analysis' = Append(analysis, analyze_email_with_reasoning(callOk, reply))
            /\ Goto(new, "analysed")
    /\ UNCHANGED <<env, responder, printed, today_wd, now_hour, inbox, emails, cur, calendar, drafts, start_dt,
                   avail, meeting, attempts, events_before, draft_id, responses_created,
                   meetings_created, summary>>

AnalyzeEmail == Analyze(RunReplies)

(* a response also for every meeting request                               *)
NeedsResponseOrMeeting(an) == an.needs_response \/ an.meeting_request # None

(* run(): "if analysis.needs_response:"                                    *)
NeedsResponse(an) == an.needs_response

(* run(): "Skipped", when the analysis says no response is needed          *)
SkipEmail ==
    /\ pc = "analysed"
    /\ ~NeedsResponse(analysis[cur])
    /\ pc' = "loop"
    /\ UNCHANGED <<env, responder, printed, today_wd, now_hour, inbox, emails, cur, replies, analysis, calendar, drafts,
                   calls, faults, start_dt, avail, meeting, attempts, events_before,
                   draft_id, responses_created, meetings_created, summary, raised>>

(* create_draft_response up to the meeting request                         *)
BeginDraft ==
    /\ pc = "analysed"
    /\ NeedsResponse(analysis[cur])
    /\ meeting' = None
    /\ draft_id' = None
    /\ events_before' = Len(calendar)
    /\ pc' = IF analysis[cur].meeting_request # None THEN "meeting_time" ELSE "create_draft"
    /\ UNCHANGED <<env, responder, printed, today_wd, now_hour, inbox, emails, cur, replies, analysis, calendar, drafts,
                   calls, faults, start_dt, avail, attempts, responses_created,
                   meetings_created, summary, raised>>

-----------------------------------------------------------------------------
(* create_meeting_if_available for the current email.                      *)

(* the subsets of 1..n of at most k elements                               *)
RECURSIVE SetsUpTo(_, _)
SetsUpTo(k, n) ==
    IF k <= 0 THEN {{}}
    ELSE LET smaller == SetsUpTo(k - 1, n)
         IN  smaller \cup {S \cup {i} : S \in smaller, i \in 1..n}

CurrentRequest == analysis[cur].meeting_request[1]

(* the outcome of one finished call: what it returned, and how many events *)
(* the calendar gained while it ran                                        *)
Attempt(created, info, cal) ==
    [email |-> cur, created |-> created, info |-> info,
     inserted |-> Len(cal) - events_before]

MeetingInfo(kind, at, alternatives) == [kind |-> kind, at |-> at, alternatives |-> alternatives]

(* the start time that stays in the past                                   *)
ParsedStartAsParsed(parsed) ==
    IF ~parsed.ok \/ parsed.aware THEN DefaultStart
    ELSE parsed.dt

(* The start time for a date and time other than "tomorrow".  dateutil     *)
(* raised -> the default; the comparison with now() raised (a datetime     *)
(* with a time zone) -> the default; a time in the past -> the same day    *)
(* and time next year, or the default when replace() raises.               *)
ParsedStart(parsed) ==
    IF ~parsed.ok \/ parsed.aware THEN DefaultStart
    ELSE IF ToMin(parsed.dt) < ToMin(Now)
         THEN IF parsed.feb29 THEN DefaultStart ELSE [parsed.dt EXCEPT !.yr = 1]
    ELSE parsed.dt

DetermineMeetingTime ==
    /\ pc = "meeting_time"
    /\ LET meeting_request == CurrentRequest
       IN  IF meeting_request.preferred_date # <<>> /\ meeting_request.preferred_time # <<>>
           THEN IF Contains(Lower(meeting_request.preferred_date), Str_tomorrow)
                THEN start_dt' = TomorrowStart(meeting_request.preferred_time)
                ELSE \E parsed \in DateutilOutcomes : start_dt' = ParsedStart(parsed)
           ELSE start_dt' = DefaultStart
    /\ pc' = "check_avail"
    /\ UNCHANGED <<env, responder, printed, today_wd, now_hour, inbox, emails, cur, replies, analysis, calendar, drafts,
                   calls, faults, avail, meeting, attempts, events_before, draft_id,
                   responses_created, meetings_created, summary, raised>>

(* the call of check_calendar_availability_dt: the lookup of the requested *)
(* window and, when it is taken, the lookups of the alternatives           *)
CheckAvailability ==
    /\ pc = "check_avail"
    /\ \E listOk \in BOOLEAN, failing \in SetsUpTo(MaxFaults - faults, Len(Candidates(start_dt))) :
        \E r \in {check_calendar_availability_dt(calendar, start_dt,
                                                 CurrentRequest.duration_minutes,
                                                 listOk, failing)} :
            LET new == <<Call(cur, "calendar_list", listOk, ToMin(start_dt),
                              ToMin(start_dt) + CurrentRequest.duration_minutes, r.items)>>
                       \o [i \in 1..Len(r.lookups) |->
                              Call(cur, "calendar_list_alt", r.lookups[i].ok,
                                   r.lookups[i].lo, r.lookups[i].hi, r.lookups[i].items)]
            IN  /\ failing \subseteq 1..Len(r.lookups)
                /\ Log(new)
                /\ avail' = [available |-> r.available, alternatives |-> r.alternatives]
                /\ Goto(new, IF r.available THEN "create_event" ELSE "propose")
    /\ UNCHANGED <<env, responder, printed, today_wd, now_hour, inbox, emails, cur, replies, analysis, calendar, drafts,
                   start_dt, meeting, attempts, events_before, draft_id,
                   responses_created, meetings_created, summary>>

(* the branch "if available": the attendees, the subject, the insert       *)
CreateEvent ==
    /\ pc = "create_event"
    /\ \E r1 \in {"title", "short", "raise"}, r2 \in {"title", "short", "raise"},
          insertOk \in BOOLEAN :
        LET meeting_request == CurrentRequest
            end_dt == ToMin(start_dt) + meeting_request.duration_minutes
            subj == _generate_meeting_subject(meeting_request, emails[cur], r1, r2)
            titleCalls == [i \in 1..Len(subj.calls) |->
                              Call(cur, subj.calls[i].kind, subj.calls[i].ok, 0, 0, 1)]
            issued(kind) == \E i \in 1..Len(subj.calls) : subj.calls[i].kind = kind
        IN  IF meeting_request.attendees = "null"
            THEN \* for email in None: TypeError, before any call
                 /\ r1 = "title" /\ r2 = "title" /\ insertOk
                 /\ pc' = "meeting_except"
                 /\ UNCHANGED <<calendar, meeting, attempts, calls, faults, raised>>
            ELSE LET new == Append(titleCalls,
                                   Call(cur, "calendar_insert", insertOk, ToMin(start_dt), end_dt, 1))
                 IN  /\ ~issued("openai_subject") => r1 = "title"
                     /\ ~issued("openai_body_subject") => r2 = "title"
                     /\ Log(new)
                     /\ IF insertOk
                        THEN /\ calendar' = Append(calendar, Event(ToMin(start_dt), end_dt))
                             /\ meeting' = Some([created |-> TRUE,
                                                 info |-> MeetingInfo("scheduled", Some(start_dt), <<>>)])
                             /\ attempts' = Append(attempts,
                                                   Attempt(TRUE, meeting'[1].info, calendar'))
                             /\ Goto(new, "create_draft")
                        ELSE /\ Goto(new, "meeting_except")
                             /\ UNCHANGED <<calendar, meeting, attempts>>
    /\ UNCHANGED <<env, responder, printed, today_wd, now_hour, inbox, emails, cur, replies, analysis, drafts, start_dt,
                   avail, events_before, draft_id, responses_created, meetings_created,
                   summary>>

(* the branch "else": the alternatives, or none                            *)
ProposeAlternatives ==
    /\ pc = "propose"
    /\ meeting' = Some([created |-> FALSE,
                        info |-> IF avail.alternatives # <<>>
                                 THEN MeetingInfo("alternatives", None, avail.alternatives)
                                 ELSE MeetingInfo("none_found", None, <<>>)])
    /\ attempts' = Append(attempts, Attempt(FALSE, meeting'[1].info, calendar))
    /\ pc' = "create_draft"
    /\ UNCHANGED <<env, responder, printed, today_wd, now_hour, inbox, emails, cur, replies, analysis, calendar, drafts,
                   calls, faults, start_dt, avail, events_before, draft_id,
                   responses_created, meetings_created, summary, raised>>

(* the except clause of create_meeting_if_available                        *)
MeetingFallback ==
    /\ pc = "meeting_except"
    /\ meeting' = Some([created |-> FALSE,
                        info |-> MeetingInfo("fallback",
                                             Some(ReplaceTime(_get_next_business_day, 14, 0)),
                                             <<>>)])
    /\ attempts' = Append(attempts, Attempt(FALSE, meeting'[1].info, calendar))
    /\ pc' = "create_draft"
    /\ UNCHANGED <<env, responder, printed, today_wd, now_hour, inbox, emails, cur, replies, analysis, calendar, drafts,
                   calls, faults, start_dt, avail, events_before, draft_id,
                   responses_created, meetings_created, summary, raised>>

-----------------------------------------------------------------------------
(* create_draft_response from the meeting outcome on, and the counters.    *)

(* the body that leaves out the outcome of a failed booking                *)
ResponseBodyBookedOnly(an, m) ==
    [greeting |-> "Hi sender",
     suggested |-> an.suggested_response,
     meeting_info |-> IF an.meeting_request # None /\ m[1].created THEN Some(m[1].info)
                      ELSE None,
     invite |-> an.meeting_request # None /\ m[1].created,
     closing |-> "Best regards"]

(* the invite sentence for every meeting request                           *)
ResponseBodyAlwaysInvite(an, m) ==
    [greeting |-> "Hi sender",
     suggested |-> an.suggested_response,
     meeting_info |-> IF an.meeting_request # None THEN Some(m[1].info) ELSE None,
     invite |-> an.meeting_request # None,
     closing |-> "Best regards"]

(* response_body: the greeting, the suggested response, the outcome of     *)
(* the booking attempt (with the invite sentence when it booked), the      *)
(* closing                                                                 *)
ResponseBody(an, m) ==
    [greeting |-> "Hi sender",
     suggested |-> an.suggested_response,
     meeting_info |-> IF an.meeting_request # None THEN Some(m[1].info) ELSE None,
     invite |-> an.meeting_request # None /\ m[1].created,
     closing |-> "Best regards"]

CreateDraft ==
    /\ pc = "create_draft"
    /\ \E createOk \in BOOLEAN :
        LET new == <<Call(cur, "gmail_draft_create", createOk, 0, 0, 1)>>
            draft == [email |-> cur, threadId |-> emails[cur].thread_id,
                      body |-> ResponseBody(analysis[cur], meeting)]
        IN  /\ Log(new)
            /\ drafts' = IF createOk THEN Append(drafts, draft) ELSE drafts
            /\ draft_id' = IF createOk THEN Some(Len(drafts) + 1) ELSE None
            /\ Goto(new, "count")
    /\ UNCHANGED <<env, responder, printed, today_wd, now_hour, inbox, emails, cur, replies, analysis, calendar, start_dt,
                   avail, meeting, attempts, events_before, responses_created,
                   meetings_created, summary>>

(* a failed draft creation tried again                                     *)
CountDraftRetry ==
    /\ pc = "count"
    /\ responses_created' = IF draft_id # None THEN responses_created + 1
                            ELSE responses_created
    /\ meetings_created' = IF draft_id # None /\ analysis[cur].meeting_request # None
                           THEN meetings_created + 1 ELSE meetings_created
    /\ pc' = IF draft_id = None THEN "create_draft" ELSE "loop"
    /\ UNCHANGED <<env, responder, printed, today_wd, now_hour, inbox, emails, cur, replies, analysis, calendar, drafts,
                   calls, faults, start_dt, avail, meeting, attempts, events_before,
                   draft_id, summary, raised>>

(* run(): "if draft_id:" and the two counters                              *)
CountDraft ==
    /\ pc = "count"
    /\ responses_created' = IF draft_id # None THEN responses_created + 1
                            ELSE responses_created
    /\ meetings_created' = IF draft_id # None /\ analysis[cur].meeting_request # None
                           THEN meetings_created + 1 ELSE meetings_created
    /\ pc' = "loop"
    /\ UNCHANGED <<env, responder, printed, today_wd, now_hour, inbox, emails, cur, replies, analysis, calendar, drafts,
                   calls, faults, start_dt, avail, meeting, attempts, events_before,
                   draft_id, summary, raised>>

-----------------------------------------------------------------------------

Next ==
    \/ GetUnreadEmails
    \/ NextEmail
    \/ AnalyzeEmail
    \/ SkipEmail
    \/ BeginDraft
    \/ DetermineMeetingTime
    \/ CheckAvailability
    \/ CreateEvent
    \/ ProposeAlternatives
    \/ MeetingFallback
    \/ CreateDraft
    \/ CountDraft
    \/ Finish

Spec == Init /\ [][Next]_vars

-----------------------------------------------------------------------------
(* analyze_email_with_reasoning alone, on one email and every reply.       *)

InitAnalysis ==
    /\ pc = "analyze"
    /\ env = ReadyEnvironment
    /\ responder = TRUE
    /\ printed = ""
    /\ today_wd \in RunWeekdays
    /\ now_hour \in RunHours
    /\ inbox = <<EmailKinds[1]>>
    /\ emails = <<[id |-> 1, subject |-> inbox[1].subject, sender |-> "sender",
                   date |-> "date", body |-> inbox[1].body, thread_id |-> 1]>>
    /\ cur = 1
    /\ replies = <<>>
    /\ analysis = <<>>
    /\ calendar = <<>>
    /\ drafts = <<>>
    /\ calls = <<>>
    /\ faults = 0
    /\ start_dt = NoStart
    /\ avail = NoAvail
    /\ meeting = None
    /\ attempts = <<>>
    /\ events_before = 0
    /\ draft_id = None
    /\ responses_created = 0
    /\ meetings_created = 0
    /\ summary = None
    /\ raised = FALSE

AnalyzeAny == Analyze(AllReplies)

NextAnalysis == AnalyzeAny

SpecAnalysis == InitAnalysis /\ [][NextAnalysis]_vars

-----------------------------------------------------------------------------
(* main(): the check of the environment, the evaluation, the construction  *)
(* of the responder, and then run().                                       *)

(* the check that looks at the key only                                    *)
EnvironmentErrorKeyOnly(e) ==
    IF ~e.api_key THEN "Error: Please set OPENAI_API_KEY in your .env file"
    ELSE ""

(* "# Check environment": the error line, "" when both checks pass         *)
EnvironmentError(e) ==
    IF ~e.api_key THEN "Error: Please set OPENAI_API_KEY in your .env file"
    ELSE IF ~e.credentials THEN "Error: Please add credentials.json file"
    ELSE ""

InitMain ==
    /\ pc = "main"
    /\ env \in Environments
    /\ responder = FALSE
    /\ printed = ""
    /\ today_wd \in RunWeekdays
    /\ now_hour \in RunHours
    /\ inbox \in RunInboxes
    /\ emails = <<>>
    /\ cur = 0
    /\ replies = <<>>
    /\ analysis = <<>>
    /\ calendar \in RunCalendars
    /\ drafts = <<>>
    /\ calls = <<>>
    /\ faults = 0
    /\ start_dt = NoStart
    /\ avail = NoAvail
    /\ meeting = None
    /\ attempts = <<>>
    /\ events_before = 0
    /\ draft_id = None
    /\ responses_created = 0
    /\ meetings_created = 0
    /\ summary = None
    /\ raised = FALSE

(* the two checks, before anything else main() does after parsing its      *)
(* arguments                                                               *)
CheckEnvironment ==
    /\ pc = "main"
    /\ printed' = EnvironmentError(env)
    /\ pc' = IF printed' # "" THEN "exited"
             ELSE IF env.evaluate THEN "evaluate"
             ELSE "construct"
    /\ UNCHANGED <<env, responder, today_wd, now_hour, inbox, emails, cur, replies, analysis,
                   calendar, drafts, calls, faults, start_dt, avail, meeting, attempts,
                   events_before, draft_id, responses_created, meetings_created, summary,
                   raised>>

(* "if args.evaluate:": the evaluator is imported and run inside a try      *)
(* block whose handlers catch everything, and main() returns.  The         *)
(* evaluator may build a responder of its own.                             *)
RunEvaluation ==
    /\ pc = "evaluate"
    /\ \E outcome \in {"import_error", "failed", "report"} :
          /\ printed' = (IF outcome = "report" THEN "" ELSE outcome)
          /\ responder' \in (IF outcome = "import_error" THEN {FALSE} ELSE BOOLEAN)
    /\ pc' = "exited"
    /\ UNCHANGED <<env, today_wd, now_hour, inbox, emails, cur, replies, analysis,
                   calendar, drafts, calls, faults, start_dt, avail, meeting, attempts,
                   events_before, draft_id, responses_created, meetings_created, summary,
                   raised>>

(* "responder = SmartEmailResponder()": the client and the two services    *)
(* are set up outside any try block, so a failure leaves main().           *)
Construct ==
    /\ pc = "construct"
    /\ \E setupOk \in BOOLEAN :
          /\ responder' = setupOk
          /\ raised' = ~setupOk
          /\ pc' = IF setupOk THEN "start" ELSE "crashed"
    /\ UNCHANGED <<env, printed, today_wd, now_hour, inbox, emails, cur, replies, analysis,
                   calendar, drafts, calls, faults, start_dt, avail, meeting, attempts,
                   events_before, draft_id, responses_created, meetings_created, summary>>

NextMain ==
    \/ CheckEnvironment
    \/ RunEvaluation
    \/ Construct
    \/ Next

SpecMain == InitMain /\ [][NextMain]_vars

-----------------------------------------------------------------------------
(* The meeting time alone: one email whose analysis carries a meeting      *)
(* request, over the dates and times a reply can name, on every weekday.   *)

DigitText(n) ==
    IF n < 10 THEN <<Digits[n + 1]>> ELSE <<Digits[(n \div 10) + 1], Digits[(n % 10) + 1]>>

TwoDigits(n) == <<Digits[(n \div 10) + 1], Digits[(n % 10) + 1]>>

(* "7pm", "7:05 PM": the hour, the minutes if any, a blank if any, the     *)
(* suffix                                                                  *)
ClockText(h, m, suffix, blank) ==
    DigitText(h) \o (IF m = None THEN <<>> ELSE <<":">> \o TwoDigits(m[1]))
                 \o (IF blank THEN <<" ">> ELSE <<>>) \o suffix

Suffixes == {<<"a", "m">>, <<"p", "m">>, <<"A", "M">>, <<"P", "M">>}

ClockMinutes == {None, Some(0), Some(5), Some(30)}

ClockTimes == {ClockText(h, m, suffix, blank) :
                  h \in 1..12, m \in ClockMinutes, suffix \in Suffixes, blank \in BOOLEAN}

(* "19:00", "19"                                                           *)
DayTimes == {DigitText(h) \o <<":">> \o TwoDigits(m) : h \in 0..23, m \in {0, 30}}
            \cup {DigitText(h) : h \in 0..23}

(* times without a reading as an hour 0..23 and a minute 0..59             *)
BadTimes ==
    {<<"1", "3", "p", "m">>,
     <<"2", "4", ":", "0", "0">>,
     <<"7", ":", "6", "0">>,
     <<"7", ":", "6", "0", "p", "m">>,
     <<"n", "o", "o", "n">>,
     <<"7", ".", "3", "0", "p", "m">>,
     <<"p", "m">>,
     <<":", "3", "0">>,
     <<"-", "5">>,
     <<"7", ":", "3", "x">>,
     <<"1", "9", "0", "0">>,
     <<"2", "p", "m", "-", "3", "p", "m">>,
     <<"8", "a", "m", " ", "e", "s", "t">>,
     <<"3", " ", "p", ".", "m", ".">>,
     <<"0", "a", "m", ":">>,
     <<"1", "2", " ", ":", " ", "6", "1">>}

TomorrowDates == {<<"t", "o", "m", "o", "r", "r", "o", "w">>,
                  <<"T", "o", "m", "o", "r", "r", "o", "w">>}

OtherDate == <<"N", "o", "v", " ", "5">>

TimeRequests ==
    {[date |-> d, time |-> t] :
        d \in TomorrowDates, t \in ClockTimes \cup DayTimes \cup BadTimes \cup {<<>>}}
    \cup {[date |-> d, time |-> t] : d \in {OtherDate, <<>>}, t \in {<<"1", "0", ":", "0", "0">>, <<>>}}

TimeWeekdays == 0..6
TimeHours == {0, 12, 23}

InitTime ==
    /\ pc = "meeting_time"
    /\ env = ReadyEnvironment
    /\ responder = TRUE
    /\ printed = ""
    /\ today_wd \in TimeWeekdays
    /\ now_hour \in TimeHours
    /\ inbox = <<EmailKinds[2]>>
    /\ emails = <<[id |-> 1, subject |-> inbox[1].subject, sender |-> "sender",
                   date |-> "date", body |-> inbox[1].body, thread_id |-> 1]>>
    /\ cur = 1
    /\ \E r \in TimeRequests :
          LET reply == Reply(TRUE, <<"J">>,
                             Value(RequiredKeys, TRUE, "text", "object", "true",
                                   MeetingData("short", r.date, r.time, Some(60), "list")))
          IN  /\ replies = <<[ok |-> TRUE, reply |-> reply]>>
              /\ analysis = <<analyze_email_with_reasoning(TRUE, reply)>>
    /\ calendar = <<>>
    /\ drafts = <<>>
    /\ calls = <<Call(0, "gmail_list", TRUE, 0, 0, 1), Call(1, "gmail_get", TRUE, 0, 0, 1),
                 Call(1, "openai_analysis", TRUE, 0, 0, 1)>>
    /\ faults = 0
    /\ start_dt = NoStart
    /\ avail = NoAvail
    /\ meeting = None
    /\ attempts = <<>>
    /\ events_before = 0
    /\ draft_id = None
    /\ responses_created = 0
    /\ meetings_created = 0
    /\ summary = None
    /\ raised = FALSE

NextTime ==
    \/ DetermineMeetingTime
    \/ CheckAvailability

SpecTime == InitTime /\ [][NextTime]_vars

-----------------------------------------------------------------------------
(* Properties.                                                             *)

CallsOf(email, kinds) ==
    {k \in 1..Len(calls) : calls[k].email = email /\ calls[k].kind \in kinds}

CalendarKinds == {"calendar_list", "calendar_list_alt", "calendar_insert"}

DraftsOf(email) == {k \in 1..Len(drafts) : drafts[k].email = email}

AttemptsOf(email) == {k \in 1..Len(attempts) : attempts[k].email = email}

(* the completion call for email i raised, or what it returned is no JSON  *)
Unparseable(i) ==
    \/ ~replies[i].ok
    \/ ~replies[i].reply.content
    \/ ~JsonLoads(ExtractJson(replies[i].reply.text))

(* C1: when the completion call raises or its reply is not parseable as    *)
(* JSON, analyze_email_with_reasoning does not raise and returns the       *)
(* default analysis (no response needed, priority low, type unknown, empty *)
(* suggested response, no meeting request), and run() makes no draft and   *)
(* no calendar call for that email.                                        *)
C1_DefaultOnUnparseable ==
    /\ ~raised
    /\ \A i \in 1..Len(analysis) :
          Unparseable(i) =>
             /\ analysis[i].needs_response = FALSE
             /\ analysis[i].response_priority = "low"
             /\ analysis[i].email_type = "unknown"
             /\ analysis[i].suggested_response = ""
             /\ analysis[i].meeting_request = None
             /\ DraftsOf(i) = {}
             /\ CallsOf(i, CalendarKinds \cup {"gmail_draft_create"}) = {}

C1_Witness ==
    /\ pc = "done"
    /\ Len(analysis) = 2
    /\ ~replies[1].ok
    /\ replies[2].ok /\ ~JsonLoads(ExtractJson(replies[2].reply.text))
    /\ summary = Some([responses |-> 0, meetings |-> 0])

(* the slots a returned text proposes *)
Proposed(info) ==
    IF info.kind = "alternatives" THEN Len(info.alternatives)
    ELSE IF info.kind = "fallback" THEN 1 ELSE 0

(* C2: one call of create_meeting_if_available either books (exactly one   *)
(* event inserted, True returned) or inserts nothing and returns False     *)
(* with a text of at most two proposed slots; _suggest_alternative_times   *)
(* never returns more than two slots.                                      *)
C2_BookOrPropose ==
    /\ Len(avail.alternatives) <= 2
    /\ \A k \in 1..Len(attempts) :
          \/ attempts[k].created /\ attempts[k].inserted = 1
                /\ attempts[k].info.kind = "scheduled"
          \/ ~attempts[k].created /\ attempts[k].inserted = 0
                /\ attempts[k].info.kind # "scheduled"
                /\ Proposed(attempts[k].info) <= 2

C2_Witness ==
    \E j, k \in 1..Len(attempts) :
        /\ attempts[j].created /\ attempts[j].inserted = 1
        /\ ~attempts[k].created /\ Len(attempts[k].info.alternatives) = 2

(* C3: an event is inserted only after the lookup of its window, made for  *)
(* the same email, returned without any event; when that lookup returned   *)
(* an event or raised, no insert is issued.                                *)
C3_InsertOnlyWhenFree ==
    /\ \A k \in 1..Len(calls) :
          calls[k].kind = "calendar_insert" =>
             \E j \in 1..(k - 1) :
                /\ calls[j].kind = "calendar_list"
                /\ calls[j].email = calls[k].email
                /\ calls[j].ok /\ calls[j].items = 0
                /\ calls[j].lo = calls[k].lo /\ calls[j].hi = calls[k].hi
                /\ \A m \in (j + 1)..(k - 1) : calls[m].kind \notin CalendarKinds
    /\ \A j \in 1..Len(calls) :
          (calls[j].kind = "calendar_list" /\ (~calls[j].ok \/ calls[j].items > 0)) =>
             CallsOf(calls[j].email, {"calendar_insert"}) = {}

C3_Witness ==
    /\ \E k \in 1..Len(calls) : calls[k].kind = "calendar_insert" /\ calls[k].ok
    /\ \E j \in 1..Len(calls) : calls[j].kind = "calendar_list" /\ calls[j].items > 0
    /\ pc = "done"

(* C4 as claimed: no failure of an external call leaves its operation, and *)
(* every handler prints a diagnostic.                                      *)
C4_EveryFailureDiagnosed ==
    /\ ~raised
    /\ \A k \in 1..Len(calls) : ~calls[k].ok => calls[k].diag # ""

(* C4, amended: every external call is inside a broad handler that returns *)
(* a default or empty result, so no failure leaves its operation; the      *)
(* handler prints a diagnostic, except the one of _is_time_slot_free,      *)
(* which returns False without printing.                                   *)
C4_EveryFailureHandled ==
    /\ ~raised /\ pc # "crashed"
    /\ \A k \in 1..Len(calls) :
          ~calls[k].ok =>
             LET e == calls[k].email
                 kind == calls[k].kind
             IN  /\ (calls[k].diag # "") <=> (kind # "calendar_list_alt")
                 /\ kind \in {"gmail_list", "gmail_get"} => emails = <<>>
                 /\ (kind = "openai_analysis" /\ e <= Len(analysis)) =>
                       analysis[e] = DefaultAnalysis
                 /\ kind = "calendar_list" =>
                       \A a \in AttemptsOf(e) :
                          ~attempts[a].created /\ attempts[a].info.kind = "none_found"
                 /\ kind = "calendar_list_alt" =>
                       \A a \in AttemptsOf(e) :
                          /\ ~attempts[a].created
                          /\ \A n \in 1..Len(attempts[a].info.alternatives) :
                                ToMin(attempts[a].info.alternatives[n]) # calls[k].lo
                 /\ kind = "calendar_insert" =>
                       \A a \in AttemptsOf(e) :
                          ~attempts[a].created /\ attempts[a].info.kind = "fallback"
                 /\ kind = "gmail_draft_create" =>
                       /\ DraftsOf(e) = {}
                       /\ (cur = e /\ pc = "count") => draft_id = None

C4_Witness ==
    /\ pc = "done"
    /\ summary # None
    /\ \E k \in 1..Len(calls) : ~calls[k].ok /\ calls[k].kind = "calendar_list_alt"
    /\ \E k \in 1..Len(calls) : calls[k].ok /\ calls[k].kind = "gmail_draft_create"

ProcessingKinds == {"openai_analysis", "calendar_list", "calendar_list_alt",
                    "openai_subject", "openai_body_subject", "calendar_insert",
                    "gmail_draft_create"}

(* the part of the handling of an email a call belongs to *)
Phase(kind) ==
    CASE kind = "openai_analysis" -> 1
      [] kind = "gmail_draft_create" -> 3
      [] OTHER -> 2

(* C5: run() handles the emails one at a time in list order: no call for   *)
(* an email follows a call for a later one, and for one email the analysis *)
(* call comes before every calendar call, which comes before the           *)
(* draft-create call.                                                      *)
C5_OneEmailAtATime ==
    \A k \in 2..Len(calls) :
        LET before == calls[k - 1]
            this == calls[k]
        IN  IF this.kind \in ProcessingKinds /\ before.kind \in ProcessingKinds
            THEN /\ before.email <= this.email
                 /\ before.email = this.email =>
                       /\ Phase(before.kind) <= Phase(this.kind)
                       /\ this.kind # "openai_analysis"
                 /\ before.email < this.email => this.kind = "openai_analysis"
            ELSE \* the calls of get_unread_emails come first
                 before.kind \notin ProcessingKinds

C5_Witness ==
    /\ pc = "done"
    /\ \E k \in 1..Len(calls) :
          /\ calls[k].kind = "gmail_draft_create" /\ calls[k].email = 1
          /\ CallsOf(1, {"calendar_insert"}) # {}
          /\ \E m \in (k + 1)..Len(calls) :
                calls[m].kind = "calendar_list_alt" /\ calls[m].email = 2
    /\ CallsOf(2, {"gmail_draft_create"}) # {}

(* C6: a draft is created for an email only if its analysis says a         *)
(* response is needed, at most one draft-create call is made per email,    *)
(* and an email that needs no response gets no draft, no calendar call and *)
(* no event, whether or not its analysis carries a meeting request.        *)
C6_DraftOnlyIfNeeded ==
    \A i \in 1..Len(analysis) :
        /\ Cardinality(CallsOf(i, {"gmail_draft_create"})) <= 1
        /\ Cardinality(DraftsOf(i)) <= 1
        /\ (CallsOf(i, {"gmail_draft_create"}) # {} \/ DraftsOf(i) # {}) =>
              analysis[i].needs_response = TRUE
        /\ analysis[i].needs_response = FALSE =>
              /\ DraftsOf(i) = {}
              /\ CallsOf(i, CalendarKinds \cup {"gmail_draft_create"}) = {}
              /\ AttemptsOf(i) = {}

C6_Witness ==
    /\ pc = "done"
    /\ \E i \in 1..Len(analysis) :
          analysis[i].needs_response = FALSE /\ analysis[i].meeting_request # None
    /\ Len(drafts) = 1

(* C7: a draft for an email whose analysis carries a meeting request comes *)
(* after exactly one booking attempt for that email, and its body holds    *)
(* the suggested response and the outcome text of that attempt.            *)
C7_DraftCarriesOutcome ==
    /\ (pc = "create_draft" /\ analysis[cur].meeting_request # None) =>
          Cardinality(AttemptsOf(cur)) = 1
    /\ \A d \in 1..Len(drafts) :
          LET e == drafts[d].email
          IN  analysis[e].meeting_request # None =>
                 /\ Cardinality(AttemptsOf(e)) = 1
                 /\ \A a \in AttemptsOf(e) :
                       /\ drafts[d].body.meeting_info = Some(attempts[a].info)
                       /\ attempts[a].info.kind \in
                             {"scheduled", "alternatives", "none_found", "fallback"}
                 /\ drafts[d].body.suggested = analysis[e].suggested_response
                 /\ \A k \in CallsOf(e, {"gmail_draft_create"}) :
                       \A j \in CallsOf(e, CalendarKinds) : j < k

C7_Witness ==
    /\ \E d \in 1..Len(drafts) : drafts[d].body.meeting_info # None
                                 /\ drafts[d].body.meeting_info[1].kind = "alternatives"
    /\ \E d \in 1..Len(drafts) : drafts[d].body.meeting_info # None
                                 /\ drafts[d].body.meeting_info[1].kind = "scheduled"

(* C8: an analysis call, a calendar insert or a draft-create call that     *)
(* failed for an email is not issued again for that email, and the run     *)
(* goes on: at its end every fetched email has had its one analysis call.  *)
C8_NoRetry ==
    /\ \A k \in 1..Len(calls) :
          (calls[k].kind \in {"openai_analysis", "calendar_insert", "gmail_draft_create"}
             /\ ~calls[k].ok) =>
                CallsOf(calls[k].email, {calls[k].kind}) = {k}
    /\ (pc = "done" /\ emails # <<>>) =>
          \A i \in 1..Len(emails) : Cardinality(CallsOf(i, {"openai_analysis"})) = 1

C8_Witness ==
    /\ pc = "done"
    /\ Len(emails) = 2
    /\ \E k \in 1..Len(calls) : calls[k].kind = "calendar_insert" /\ ~calls[k].ok
                                /\ calls[k].email = 1
    /\ CallsOf(2, {"gmail_draft_create"}) # {}

(* C9: every analysis returned has all six fields; when the reply's JSON   *)
(* lacks one of the five required keys the default analysis is returned;   *)
(* a meeting request is attached only when has_meeting_request is truthy.  *)
C9_AnalysisComplete ==
    \A i \in 1..Len(analysis) :
        LET value == replies[i].reply.value
        IN  /\ DOMAIN analysis[i] = AnalysisFields
            /\ ~(RequiredKeys \subseteq value.keys) => analysis[i] = DefaultAnalysis
            /\ analysis[i].meeting_request # None =>
                  /\ replies[i].ok
                  /\ value.meeting_request = "object"
                  /\ Truthy(value.has_meeting_request)
                  /\ analysis[i].meeting_request = Some(MeetingRequest(value.meeting_data))

C9_Witness ==
    /\ Len(analysis) = 1
    /\ replies[1].ok /\ replies[1].reply.content
    /\ JsonLoads(ExtractJson(replies[1].reply.text))
    /\ replies[1].reply.value.shape = "object"
    /\ replies[1].reply.value.keys = RequiredKeys \ {"reasoning"}
    /\ replies[1].reply.value.meeting_request = "object"
    /\ replies[1].reply.value.has_meeting_request = "true"
    /\ analysis[1] = DefaultAnalysis

(* C10: the final line of run() reports the number of drafts created and   *)
(* the number of calendar events created in the run.                       *)
C10_SummaryCounts ==
    summary # None =>
        /\ summary[1].responses = Len(drafts)
        /\ summary[1].meetings =
              Cardinality({k \in 1..Len(calls) : calls[k].kind = "calendar_insert" /\ calls[k].ok})

(* C11: when OPENAI_API_KEY is unset or credentials.json does not exist,   *)
(* main() prints an error and returns without constructing a responder:    *)
(* no Gmail, Calendar or OpenAI call is made and no draft or event is      *)
(* created, with or without --evaluate.                                    *)
C11_NoRunWithoutEnvironment ==
    (~env.api_key \/ ~env.credentials) =>
        /\ pc \in {"main", "exited"}
        /\ pc = "exited" => printed \in {"Error: Please set OPENAI_API_KEY in your .env file",
                                         "Error: Please add credentials.json file"}
        /\ ~responder
        /\ ~raised
        /\ calls = <<>>
        /\ drafts = <<>>
        /\ attempts = <<>>
        /\ emails = <<>>

C11_Witness ==
    /\ pc = "exited"
    /\ env.api_key /\ ~env.credentials /\ env.evaluate
    /\ printed = "Error: Please add credentials.json file"
    /\ ~responder

(* C12: get_unread_emails is all-or-nothing.  When the list call or the    *)
(* fetch of one message fails it returns the empty list, the messages      *)
(* already fetched included, and run() ends there: no email is analysed,   *)
(* no draft is created, no further call is made.  When none fails it       *)
(* returns every message listed.                                           *)
C12_AllOrNothing ==
    LET fetchFailed == \E k \in 1..Len(calls) :
                          calls[k].kind \in {"gmail_list", "gmail_get"} /\ ~calls[k].ok
    IN  /\ fetchFailed =>
              /\ emails = <<>>
              /\ pc = "done"
              /\ ~raised
              /\ cur = 0
              /\ analysis = <<>>
              /\ drafts = <<>>
              /\ attempts = <<>>
              /\ summary = None
              /\ \A k \in 1..Len(calls) : calls[k].kind \in {"gmail_list", "gmail_get"}
        /\ (pc # "start" /\ ~fetchFailed) => Len(emails) = Min(Len(inbox), max_count)

C12_Witness ==
    /\ pc = "done"
    /\ Len(calls) = 3
    /\ calls[2].kind = "gmail_get" /\ calls[2].ok
    /\ calls[3].kind = "gmail_get" /\ ~calls[3].ok
    /\ emails = <<>>

(* C13: a draft says "I've sent you a calendar invite" only if the insert  *)
(* call for its email was issued and returned; when the insert raised, or  *)
(* the slot was not available and no insert was issued, the draft does not *)
(* say so.                                                                 *)
C13_InviteOnlyIfInserted ==
    \A d \in 1..Len(drafts) :
        LET inserts == CallsOf(drafts[d].email, {"calendar_insert"})
        IN  /\ drafts[d].body.invite =>
                  /\ inserts # {}
                  /\ \A k \in inserts : calls[k].ok
                  /\ \E e \in 1..Len(calendar) :
                        \E k \in inserts : calendar[e] = Event(calls[k].lo, calls[k].hi)
            /\ (inserts = {} \/ \E k \in inserts : ~calls[k].ok) => ~drafts[d].body.invite

C13_Witness ==
    /\ Len(drafts) = 2
    /\ drafts[1].body.invite
    /\ ~drafts[2].body.invite
    /\ \E k \in CallsOf(drafts[1].email, {"calendar_insert"}) : calls[k].ok
    /\ \E k \in CallsOf(drafts[2].email, {"calendar_insert"}) : ~calls[k].ok

BookingKinds == {"calendar_list", "calendar_list_alt", "openai_subject",
                 "openai_body_subject", "calendar_insert"}

(* C14 as claimed: create_meeting_if_available never raises, any exception *)
(* while it checks the availability, generates the title or inserts the    *)
(* event makes it return (False, a proposal for the next business day at   *)
(* 14:00), and it returns True only after the insert returned.             *)
C14_FallbackOnAnyException ==
    /\ ~raised
    /\ \A a \in 1..Len(attempts) :
          /\ (\E k \in CallsOf(attempts[a].email, BookingKinds) : ~calls[k].ok) =>
                /\ ~attempts[a].created
                /\ attempts[a].info.kind = "fallback"
                /\ attempts[a].info.at = Some(DefaultStart)
          /\ attempts[a].created =>
                \E k \in CallsOf(attempts[a].email, {"calendar_insert"}) : calls[k].ok

(* C14, amended: create_meeting_if_available never raises and returns True *)
(* only after the insert returned.  Only an exception that reaches its own *)
(* handler (a failed insert, attendees that cannot be iterated) makes it   *)
(* return the proposal for the next business day at 14:00.  A failed       *)
(* availability lookup is handled inside check_calendar_availability_dt:   *)
(* the slot counts as taken, without alternatives, and the call returns    *)
(* (False, "No suitable alternative times found this week.").  A failed    *)
(* title generation is handled inside _generate_meeting_subject: another   *)
(* title is used and the booking goes on.                                  *)
C14_NeverRaises ==
    /\ ~raised
    /\ pc # "crashed"
    /\ \A a \in 1..Len(attempts) :
          LET e == attempts[a].email
              failed(kinds) == \E k \in CallsOf(e, kinds) : ~calls[k].ok
              inserted == \E k \in CallsOf(e, {"calendar_insert"}) : calls[k].ok
              noAttendees == analysis[e].meeting_request[1].attendees = "null"
              free == \E k \in CallsOf(e, {"calendar_list"}) : calls[k].ok /\ calls[k].items = 0
          IN  /\ attempts[a].created <=> inserted
              /\ attempts[a].created => attempts[a].info.kind = "scheduled"
              /\ attempts[a].info.kind = "fallback" <=>
                    (failed({"calendar_insert"}) \/ (noAttendees /\ free))
              /\ attempts[a].info.kind = "fallback" => attempts[a].info.at = Some(DefaultStart)
              /\ failed({"calendar_list"}) =>
                    /\ attempts[a].info.kind = "none_found"
                    /\ CallsOf(e, {"calendar_list_alt", "calendar_insert"}) = {}
              /\ (failed({"openai_subject", "openai_body_subject"})
                  /\ ~failed({"calendar_insert"})) => attempts[a].created
    /\ \A e \in 1..Len(analysis) :
          (CallsOf(e, {"calendar_list"}) # {} /\ (e < cur \/ pc \in {"create_draft", "count", "loop", "done"}))
              => Cardinality(AttemptsOf(e)) = 1

C14_Witness ==
    /\ Len(attempts) = 2
    /\ attempts[1].info.kind = "none_found"
    /\ \E k \in CallsOf(attempts[1].email, {"calendar_list"}) : ~calls[k].ok
    /\ attempts[2].info.kind = "fallback"
    /\ attempts[2].info.at = Some(DefaultStart)
    /\ pc = "done"

(* the calls of the given kinds made for an email, in the order of the log *)
CallSeq(email, kinds) ==
    SelectSeq(calls, LAMBDA c : c.email = email /\ c.kind \in kinds)

(* The scan order of the claim for a requested window that starts at       *)
(* minute lo: the starts, in minutes, of the slots on the requested day at *)
(* 10, 11, 14, 15 and 16 h, then of the slots at 14 h on the days +1..+7   *)
(* that fall on Monday to Friday.                                          *)
ScanOrder(lo) ==
    LET day0 == lo \div (24 * 60)
        sameDay == [i \in 1..5 |-> (day0 * 24 + <<10, 11, 14, 15, 16>>[i]) * 60]
        later == [d \in 1..7 |-> ((day0 + d) * 24 + 14) * 60]
    IN  sameDay \o SelectSeq(later, LAMBDA t : (today_wd + (t \div (24 * 60))) % 7 \in 0..4)

ReportedFree(c) == c.ok /\ c.items = 0

(* C15: the lookups _suggest_alternative_times issues are a prefix of the  *)
(* fixed scan order; the scan goes on exactly until two slots were         *)
(* reported free or the order is exhausted; the alternatives returned are  *)
(* the slots reported free, in scan order, two at most.                    *)
C15_LinearScan ==
    \A e \in 1..Len(analysis) :
        LET first == CallSeq(e, {"calendar_list"})
            L == CallSeq(e, {"calendar_list_alt"})
        IN  L # <<>> =>
              LET order == ScanOrder(first[1].lo)
                  duration == first[1].hi - first[1].lo
                  free == SelectSeq(L, ReportedFree)
              IN  /\ Len(first) = 1
                  /\ first[1].ok /\ first[1].items > 0
                  /\ Len(L) <= Len(order)
                  /\ \A i \in 1..Len(L) : L[i].lo = order[i] /\ L[i].hi = order[i] + duration
                  /\ Len(free) <= 2
                  /\ Len(free) = 2 => ReportedFree(L[Len(L)])
                  /\ Len(free) < 2 => Len(L) = Len(order)
                  /\ \A a \in AttemptsOf(e) :
                        /\ Len(attempts[a].info.alternatives) = Len(free)
                        /\ \A i \in 1..Len(free) :
                              ToMin(attempts[a].info.alternatives[i]) = free[i].lo
                        /\ attempts[a].info.kind =
                              (IF free = <<>> THEN "none_found" ELSE "alternatives")

C15_Witness ==
    \E e \in 1..Len(analysis) :
        LET L == CallSeq(e, {"calendar_list_alt"})
        IN  /\ Len(L) = 8
            /\ ~L[6].ok
            /\ ReportedFree(L[7]) /\ ReportedFree(L[8])
            /\ L[6].lo - L[5].lo > 24 * 60
            /\ \E a \in AttemptsOf(e) : Len(attempts[a].info.alternatives) = 2

(* the start time has been determined; the lookup of its window, if made   *)
Determined == pc \in {"check_avail", "create_event", "propose"}

Tomorrow(h, m) == DT(0, 1, h, m)

AskedTomorrow == Contains(Lower(CurrentRequest.preferred_date), <<"t", "o", "m", "o", "r", "r", "o", "w">>)

LookedUp(dt) ==
    \E k \in CallsOf(cur, {"calendar_list"}) : calls[k].lo = ToMin(dt)

(* C16: for a date that contains "tomorrow" and a 12-hour clock time with  *)
(* am or pm (hours 1 to 12, minutes optional) the start is tomorrow at the *)
(* 24-hour time: h pm is h + 12 for h in 1..11, 12 pm is 12, h am is h for *)
(* h in 1..11, 12 am is 0.                                                 *)
C16_TwelveHourClock ==
    (Determined /\ AskedTomorrow) =>
        \A h \in 1..12, m \in ClockMinutes, suffix \in Suffixes, blank \in BOOLEAN :
            CurrentRequest.preferred_time = ClockText(h, m, suffix, blank) =>
                LET pm == suffix \in {<<"p", "m">>, <<"P", "M">>}
                    hour == IF pm THEN (IF h = 12 THEN 12 ELSE h + 12)
                            ELSE (IF h = 12 THEN 0 ELSE h)
                    minute == IF m = None THEN 0 ELSE m[1]
                IN  start_dt = Tomorrow(hour, minute)

(* C17: for a date that contains "tomorrow" and a time that cannot be      *)
(* parsed into an hour 0..23 and a minute 0..59 the start is tomorrow at   *)
(* 19:00, and the attempt goes on with the availability check of that      *)
(* slot.                                                                   *)
C17_DefaultSevenPm ==
    (Determined /\ AskedTomorrow /\ CurrentRequest.preferred_time \in BadTimes) =>
        /\ start_dt = Tomorrow(19, 0)
        /\ ~raised
        /\ attempts = <<>>
        /\ pc # "check_avail" => LookedUp(Tomorrow(19, 0))

C17_Witness ==
    /\ pc = "create_event"
    /\ AskedTomorrow
    /\ CurrentRequest.preferred_time = <<"1", "3", "p", "m">>
    /\ start_dt = Tomorrow(19, 0)
    /\ LookedUp(Tomorrow(19, 0))

Missing == CurrentRequest.preferred_date = <<>> \/ CurrentRequest.preferred_time = <<>>

(* C18 as claimed: the start passed to the availability check is never     *)
(* before now; a date or time that is missing or cannot be parsed gives    *)
(* the next business day at 14:00; "tomorrow" always gives the day after   *)
(* today.                                                                  *)
C18_NeverInThePast ==
    Determined =>
        /\ ToMin(start_dt) >= ToMin(Now)
        /\ (Missing \/ CurrentRequest.preferred_time \in BadTimes) => start_dt = DefaultStart
        /\ AskedTomorrow => (start_dt.yr = 0 /\ start_dt.day = 1)

(* C18, amended: the start passed to the availability check is never       *)
(* before now.  A missing date or time gives the next business day at      *)
(* 14:00, also when the date is "tomorrow".  A date with "tomorrow" and a   *)
(* time gives the day after today, at 19:00 when the time cannot be        *)
(* parsed.  Any other date gives what dateutil returned, moved to next     *)
(* year when it is in the past, or the next business day at 14:00 when it  *)
(* cannot be parsed.                                                       *)
C18_StartNotBeforeNow ==
    Determined =>
        /\ ToMin(start_dt) >= ToMin(Now)
        /\ pc # "check_avail" => LookedUp(start_dt)
        /\ Missing => start_dt = DefaultStart
        /\ (~Missing /\ AskedTomorrow) =>
              /\ start_dt.yr = 0 /\ start_dt.day = 1
              /\ CurrentRequest.preferred_time \in BadTimes => start_dt = Tomorrow(19, 0)
        /\ (~Missing /\ ~AskedTomorrow) =>
              \/ start_dt = DefaultStart
              \/ \E p \in DateutilOutcomes :
                    /\ p.ok
                    /\ \/ start_dt = p.dt
                       \/ ToMin(p.dt) < ToMin(Now) /\ start_dt = [p.dt EXCEPT !.yr = 1]

C18_Witness ==
    /\ pc = "create_event"
    /\ ~Missing /\ ~AskedTomorrow
    /\ start_dt.yr = 1
    /\ LookedUp(start_dt)

(* C19: a calendar event created for an email comes with a draft for that  *)
(* email: at the end of run() there is no event whose email has no draft,  *)
(* also when the draft creation failed after the insert.                   *)
C19_NoEventWithoutDraft ==
    pc = "done" =>
        \A k \in 1..Len(calls) :
            (calls[k].kind = "calendar_insert" /\ calls[k].ok
             /\ \E e \in 1..Len(calendar) : calendar[e] = Event(calls[k].lo, calls[k].hi))
                => DraftsOf(calls[k].email) # {}

====
